---- MODULE Spec2Model ----
(***************************************************************************)
(* Model of proj2_nps.py: the disk-backed request cache (open_cache,       *)
(* save_cache), the two read-through fetchers                              *)
(* (make_url_request_using_cache, get_nearby_places), the cache key        *)
(* builder (construct_unique_key), the site extractor (get_site_instance)  *)
(* and the interactive loop of __main__.                                   *)
(*                                                                         *)
(* Python strings are sequences of one-character strings; a Python dict is *)
(* the sequence of its items in insertion order, with distinct keys.       *)
(***************************************************************************)
EXTENDS Integers, Sequences, FiniteSets, TLC

\* ------------------------------------------------------------------ bounds
NumUrls == 2        \* distinct page URLs a run may request
NumZips == 1        \* distinct real postal codes of sites (plus the sentinel)
NumBodies == 2      \* distinct reply bodies the network may return
MaxParams == 2      \* parameters of a mapping given to construct_unique_key
MaxSites == 2       \* sites listed on a state page
MaxCalls == 3       \* fetch calls followed in one run

VARIABLES
  CACHE_DICT,     \* the module-level cache dict
  cache_file,     \* the contents of the cache file nps_cache.json
  last,           \* the last fetch call and what it did
  prev,           \* the fetch call before it, when the last call repeats it
  persisted,      \* the entries written to the cache file so far, latest value of each
  key_call,       \* the last call of construct_unique_key and its result
  site_doc,       \* the document last given to get_site_instance
  site_instance,  \* what get_site_instance made of it
  pc,             \* where __main__ stands
  states_dict,    \* state name -> state page URL, built at startup
  state_sites,    \* the sites listed for the chosen state
  user_input,     \* the last line read by input()
  shown,          \* what the last command printed
  lookup          \* the site whose nearby places the last command looked up

vars == << CACHE_DICT, cache_file, last, prev, persisted, key_call, site_doc, site_instance,
           pc, states_dict, state_sites, user_input, shown, lookup >>

cacheVars == << CACHE_DICT, cache_file, last, prev, persisted >>
keyVars == << key_call >>
siteVars == << site_doc, site_instance >>
mainVars == << pc, states_dict, state_sites, user_input, shown, lookup >>

\* Body(v) for v the value of E, E worked out once
With(E, Body(_)) == CHOOSE r \in { Body(v) : v \in { E } } : TRUE

\* ----------------------------------------------------------- Python strings
\* printable ASCII in code point order, code 32 first (code 96 is held by a
\* placeholder: no string of the program contains it)
Ascii ==
  << " ", "!", "\"", "#", "$", "%", "&", "'", "(", ")", "*", "+", ",", "-", ".", "/",
     "0", "1", "2", "3", "4", "5", "6", "7", "8", "9", ":", ";", "<", "=", ">", "?",
     "@", "A", "B", "C", "D", "E", "F", "G", "H", "I", "J", "K", "L", "M", "N", "O",
     "P", "Q", "R", "S", "T", "U", "V", "W", "X", "Y", "Z", "[", "\\", "]", "^", "_",
     "grave", "a", "b", "c", "d", "e", "f", "g", "h", "i", "j", "k", "l", "m", "n", "o",
     "p", "q", "r", "s", "t", "u", "v", "w", "x", "y", "z", "{", "|", "}", "~" >>

Ord(c) == 31 + (CHOOSE i \in 1..Len(Ascii) : Ascii[i] = c)

Digit(d) == Ascii[17 + d]

\* str.__lt__ : lexicographic by code point, a proper prefix is smaller
RECURSIVE StrLess(_, _)
StrLess(a, b) ==
  IF b = <<>> THEN FALSE
  ELSE IF a = <<>> THEN TRUE
  ELSE IF Head(a) = Head(b) THEN StrLess(Tail(a), Tail(b))
  ELSE Ord(Head(a)) < Ord(Head(b))

\* str(n) for an integer
RECURSIVE FormatNat(_)
FormatNat(n) == IF n < 10 THEN << Digit(n) >> ELSE FormatNat(n \div 10) \o << Digit(n % 10) >>

FormatInt(n) == IF n < 0 THEN << "-" >> \o FormatNat(0 - n) ELSE FormatNat(n)

\* a parameter value is a str or an int
StrVal(s) == [t |-> "str", s |-> s, n |-> 0]
NumVal(n) == [t |-> "num", s |-> <<>>, n |-> n]

\* f'{v}'
Format(v) == IF v.t = "num" THEN FormatInt(v.n) ELSE v.s

\* connector.join(xs)
RECURSIVE Join(_, _)
Join(sep, xs) ==
  IF xs = <<>> THEN <<>>
  ELSE IF Len(xs) = 1 THEN xs[1]
  ELSE xs[1] \o sep \o Join(sep, Tail(xs))

\* list.sort() on strings
RECURSIVE InsertSorted(_, _)
InsertSorted(x, xs) ==
  IF xs = <<>> THEN << x >>
  ELSE IF StrLess(x, Head(xs)) THEN << x >> \o xs
  ELSE << Head(xs) >> \o InsertSorted(x, Tail(xs))

RECURSIVE Sort(_)
Sort(xs) ==
  IF xs = <<>> THEN <<>>
  ELSE With(Sort(Tail(xs)), LAMBDA rest : InsertSorted(Head(xs), rest))

\* ------------------------------------------------------------- Python dict
Keys(d) == { d[i].k : i \in 1..Len(d) }
HasKey(d, k) == \E i \in 1..Len(d) : d[i].k = k
Get(d, k) == d[CHOOSE i \in 1..Len(d) : d[i].k = k].v
\* d[k] = v : overwrite in place, or append
Put(d, k, v) ==
  IF HasKey(d, k) THEN [i \in 1..Len(d) |-> IF d[i].k = k THEN [k |-> k, v |-> v] ELSE d[i]]
  ELSE Append(d, [k |-> k, v |-> v])
\* dict.__eq__ : same keys, same values, order ignored
DictEq(d, e) == Keys(d) = Keys(e) /\ \A k \in Keys(d) : Get(d, k) = Get(e, k)

\* -------------------------------------------------------- construct_unique_key
FragmentNoValue(item) == item.k

Fragment(item) == item.k \o << "_" >> \o Format(item.v)

param_strings(params) == [i \in 1..Len(params) |-> Fragment(params[i])]

SortSkipped(xs) == xs

SortFragments(xs) == Sort(xs)

construct_unique_key(baseurl, params) ==
  LET connector == << "_" >>
  IN With(SortFragments(param_strings(params)),
          LAMBDA sorted : baseurl \o connector \o Join(connector, sorted))

\* ------------------------------------------------------------ cached values
\* a cached value is response.text (a str) or response.json() (the decoded
\* reply of the search API: an object holding the searchResults array)
TextVal(s) == [t |-> "str", s |-> s, items |-> <<>>]
JsonVal(items) == [t |-> "obj", s |-> <<>>, items |-> items]

searchResults == << "s", "e", "a", "r", "c", "h", "R", "e", "s", "u", "l", "t", "s" >>

\* ------------------------------------------------------------- json.dumps
EscapeNone(c) == << c >>

\* the encoder escapes the quote and the backslash inside a string
Escape(c) == IF c \in {"\"", "\\"} THEN << "\\", c >> ELSE << c >>

\* every character of s encoded, in order (halving keeps the nesting shallow)
RECURSIVE EscapeAll(_)
EscapeAll(s) ==
  IF s = <<>> THEN <<>>
  ELSE IF Len(s) = 1 THEN Escape(s[1])
  ELSE LET h == Len(s) \div 2
       IN EscapeAll(SubSeq(s, 1, h)) \o EscapeAll(SubSeq(s, h + 1, Len(s)))

dumps_str(s) == << "\"" >> \o EscapeAll(s) \o << "\"" >>

dumps_value(v) ==
  IF v.t = "str" THEN dumps_str(v.s)
  ELSE << "{" >> \o dumps_str(searchResults) \o << ":", " ", "[" >>
       \o Join(<< ",", " " >>, [i \in 1..Len(v.items) |-> dumps_str(v.items[i])])
       \o << "]", "}" >>

json_dumps(cache) ==
  With(cache, LAMBDA d :
    << "{" >>
    \o Join(<< ",", " " >>,
            [i \in 1..Len(d) |-> dumps_str(d[i].k) \o << ":", " " >> \o dumps_value(d[i].v)])
    \o << "}" >>)

\* ------------------------------------------------------------- json.loads
ParseFail == [ok |-> FALSE, i |-> 0, s |-> <<>>, v |-> TextVal(<<>>), d |-> <<>>]
ParseOk(i, s, v, d) == [ok |-> TRUE, i |-> i, s |-> s, v |-> v, d |-> d]

At(t, i, c) == i >= 1 /\ i <= Len(t) /\ t[i] = c

RECURSIVE Ws(_, _)
Ws(t, i) == IF At(t, i, " ") THEN Ws(t, i + 1) ELSE i

\* the backslashes that stand right before position j of a string that
\* starts at position a
RECURSIVE BsRun(_, _, _)
BsRun(t, a, j) == IF j <= a \/ t[j - 1] # "\\" THEN 0 ELSE 1 + BsRun(t, a, j - 1)

\* position j is taken by the escape that the backslash before it opens
Escaped(t, a, j) == BsRun(t, a, j) % 2 = 1

\* the characters of a string from position a up to its closing quote,
\* escapes undone
ScanEscaped(t, a) ==
  LET closes(j) == t[j] = "\"" /\ ~Escaped(t, a, j)
      close == CHOOSE j \in a..Len(t) : closes(j) /\ \A k \in a..(j - 1) : ~closes(k)
      mark(j) == LET esc == Escaped(t, a, j)
                 IN [c |-> t[j],
                     opens |-> t[j] = "\\" /\ ~esc,
                     known |-> ~esc \/ t[j] \in {"\"", "\\"}]
      marked == [n \in 1..(close - a) |-> mark(a + n - 1)]
      kept == SelectSeq(marked, LAMBDA m : ~m.opens)
      body == [n \in 1..Len(kept) |-> kept[n].c]
  IN IF ~\E j \in a..Len(t) : closes(j) THEN ParseFail
     ELSE IF \E n \in 1..Len(marked) : ~marked[n].known THEN ParseFail
     ELSE ParseOk(close + 1, body, TextVal(body), <<>>)

\* a string that holds no backslash ends at its first quote
ScanStr(t, a) ==
  LET quote(j) == t[j] = "\""
      first == CHOOSE j \in a..Len(t) : quote(j) /\ \A k \in a..(j - 1) : ~quote(k)
  IN IF ~\E j \in a..Len(t) : quote(j) THEN ParseFail
     ELSE IF \E j \in a..(first - 1) : t[j] = "\\" THEN ScanEscaped(t, a)
     ELSE With(SubSeq(t, a, first - 1), LAMBDA body : ParseOk(first + 1, body, TextVal(body), <<>>))

ParseStr(t, i) ==
  With(i, LAMBDA a : IF At(t, a, "\"") THEN ScanStr(t, a + 1) ELSE ParseFail)

\* the elements of an array after its opening bracket
RECURSIVE ParseStrList(_, _, _)
ParseStrList(t, i, acc) ==
  With(Ws(t, i), LAMBDA a :
    IF acc = <<>> /\ At(t, a, "]") THEN ParseOk(a + 1, <<>>, JsonVal(acc), <<>>)
    ELSE With(ParseStr(t, a), LAMBDA e :
         With(Ws(t, e.i), LAMBDA j :
           IF ~e.ok THEN ParseFail
           ELSE IF At(t, j, ",") THEN ParseStrList(t, j + 1, Append(acc, e.s))
           ELSE IF At(t, j, "]") THEN ParseOk(j + 1, <<>>, JsonVal(Append(acc, e.s)), <<>>)
           ELSE ParseFail)))

\* the object of a reply: the searchResults array under its name
ParseObject(t, i) ==
  With(ParseStr(t, Ws(t, i + 1)), LAMBDA name :
  With(Ws(t, name.i), LAMBDA c :
  With(Ws(t, c + 1), LAMBDA b :
    IF ~(name.ok /\ name.s = searchResults /\ At(t, c, ":") /\ At(t, b, "[")) THEN ParseFail
    ELSE With(ParseStrList(t, b + 1, <<>>), LAMBDA lst :
         With(Ws(t, lst.i), LAMBDA e :
           IF lst.ok /\ At(t, e, "}") THEN ParseOk(e + 1, <<>>, lst.v, <<>>) ELSE ParseFail)))))

ParseValue(t, i) ==
  With(i, LAMBDA a :
    IF At(t, a, "\"") THEN ParseStr(t, a)
    ELSE IF At(t, a, "{") THEN ParseObject(t, a)
    ELSE ParseFail)

\* the members of the top-level object after its opening brace; a name read
\* twice keeps its last value
RECURSIVE ParseMembers(_, _, _)
ParseMembers(t, i, acc) ==
  With(Ws(t, i), LAMBDA a :
    IF acc = <<>> /\ At(t, a, "}") THEN ParseOk(a + 1, <<>>, TextVal(<<>>), acc)
    ELSE With(ParseStr(t, a), LAMBDA name :
         With(Ws(t, name.i), LAMBDA c :
           IF ~(name.ok /\ At(t, c, ":")) THEN ParseFail
           ELSE With(ParseValue(t, Ws(t, c + 1)), LAMBDA val :
                With(Ws(t, val.i), LAMBDA j :
                With(Put(acc, name.s, val.v), LAMBDA d :
                  IF ~val.ok THEN ParseFail
                  ELSE IF At(t, j, ",") THEN ParseMembers(t, j + 1, d)
                  ELSE IF At(t, j, "}") THEN ParseOk(j + 1, <<>>, TextVal(<<>>), d)
                  ELSE ParseFail))))))

\* ok is FALSE where json.loads raises
json_loads(t) ==
  With(t, LAMBDA text :
    With(IF At(text, Ws(text, 1), "{") THEN ParseMembers(text, Ws(text, 1) + 1, <<>>) ELSE ParseFail,
         LAMBDA r : IF r.ok /\ Ws(text, r.i) = Len(text) + 1 THEN r ELSE ParseFail))

\* ------------------------------------------------------------- cache file
\* the file nps_cache.json: absent, or holding a text
NoFile == [exists |-> FALSE, text |-> <<>>]
FileOf(text) == [exists |-> TRUE, text |-> text]

\* open() raises on an absent file, json.loads on a malformed one; the bare
\* except turns both into an empty cache
open_cache(fs) ==
  IF ~fs.exists THEN <<>>
  ELSE With(json_loads(fs.text), LAMBDA r : IF r.ok THEN r.d ELSE <<>>)

\* the file after save_cache(cache): rewritten whole
save_cache(cache) == FileOf(json_dumps(cache))

\* --------------------------------------------------------------- network
\* a reply to requests.get: raised is TRUE when the request raises, body is
\* response.text
NetRaise == [raised |-> TRUE, body |-> <<>>]
NetReply(body) == [raised |-> FALSE, body |-> body]

\* response.json(): ok is FALSE where the decode of the body raises
response_json(body) ==
  With(body, LAMBDA text :
    With(ParseValue(text, Ws(text, 1)),
         LAMBDA r : IF r.ok /\ r.v.t = "obj" /\ Ws(text, r.i) = Len(text) + 1 THEN r ELSE ParseFail))

\* ------------------------------------------------------------ NationalSite
NationalSite(category, name, address, zipcode, phone) ==
  [category |-> category, name |-> name, address |-> address, zipcode |-> zipcode, phone |-> phone]

\* ------------------------------------------------------- read-through fetch
\* what one call did: outcome is "hit" (returned from the cache), "stored"
\* (fetched, stored, flushed, returned) or "raised" (the exception left the
\* call); events lists the prints, sleeps, GETs and flushes in order
Result(outcome, key, ret, cache, fs, events) ==
  [outcome |-> outcome, key |-> key, ret |-> ret, cache |-> cache, fs |-> fs, events |-> events]

NoValue == TextVal(<<>>)

make_url_request_never_hits(url, cache, fs, resp) ==
  IF resp.raised
  THEN Result("raised", url, NoValue, cache, fs, << "print", "sleep", "get" >>)
  ELSE LET c2 == Put(cache, url, TextVal(resp.body))
       IN Result("stored", url, Get(c2, url), c2, save_cache(c2), << "print", "sleep", "get", "save" >>)

make_url_request_stores_before_get(url, cache, fs, resp) ==
  IF HasKey(cache, url)
  THEN Result("hit", url, Get(cache, url), cache, fs, << "print" >>)
  ELSE LET c2 == Put(cache, url, TextVal(resp.body))
       IN IF resp.raised
          THEN Result("raised", url, NoValue, c2, save_cache(c2), << "print", "sleep", "save", "get" >>)
          ELSE Result("stored", url, Get(c2, url), c2, save_cache(c2), << "print", "sleep", "get", "save" >>)

make_url_request_using_cache(url, cache, fs, resp) ==
  IF HasKey(cache, url)
  THEN Result("hit", url, Get(cache, url), cache, fs, << "print" >>)
  ELSE IF resp.raised
  THEN Result("raised", url, NoValue, cache, fs, << "print", "sleep", "get" >>)
  ELSE With(Put(cache, url, TextVal(resp.body)), LAMBDA c2 :
         Result("stored", url, Get(c2, url), c2, save_cache(c2), << "print", "sleep", "get", "save" >>))

API_KEY == << "K" >>

mapquest_url ==
  << "h", "t", "t", "p", ":", "/", "/", "w", "w", "w", ".", "m", "a", "p", "q", "u", "e", "s", "t",
     "a", "p", "i", ".", "c", "o", "m", "/", "s", "e", "a", "r", "c", "h", "/", "v", "2", "/",
     "r", "a", "d", "i", "u", "s" >>

nearby_params(site_object) ==
  << [k |-> << "k", "e", "y" >>, v |-> StrVal(API_KEY)],
     [k |-> << "o", "r", "i", "g", "i", "n" >>, v |-> StrVal(site_object.zipcode)],
     [k |-> << "r", "a", "d", "i", "u", "s" >>, v |-> NumVal(10)],
     [k |-> << "u", "n", "i", "t", "s" >>, v |-> StrVal(<< "m" >>)],
     [k |-> << "m", "a", "x", "M", "a", "t", "c", "h", "e", "s" >>, v |-> NumVal(10)],
     [k |-> << "a", "m", "b", "i", "g", "u", "i", "t", "i", "e", "s" >>,
      v |-> StrVal(<< "i", "g", "n", "o", "r", "e" >>)],
     [k |-> << "o", "u", "t", "F", "o", "r", "m", "a", "t" >>, v |-> StrVal(<< "j", "s", "o", "n" >>)] >>

\* the cache the function works on is its own local CACHE_DICT, loaded from
\* the file; the module-level CACHE_DICT is not touched
get_nearby_places(site_object, fs, resp) ==
  With(open_cache(fs), LAMBDA local :
  With(construct_unique_key(mapquest_url, nearby_params(site_object)), LAMBDA uniq_key :
    IF HasKey(local, uniq_key)
    THEN Result("hit", uniq_key, Get(local, uniq_key), local, fs, << "print" >>)
    ELSE IF resp.raised
    THEN Result("raised", uniq_key, NoValue, local, fs, << "print", "get" >>)
    ELSE With(response_json(resp.body), LAMBDA decoded :
           IF ~decoded.ok
           THEN Result("raised", uniq_key, NoValue, local, fs, << "print", "get" >>)
           ELSE With(Put(local, uniq_key, decoded.v), LAMBDA c2 :
                  Result("stored", uniq_key, Get(c2, uniq_key), c2, save_cache(c2),
                         << "print", "get", "save" >>)))))

\* ------------------------------------------------------- get_site_instance
\* what soup.find(...) gives for one marker of a site page: None (present is
\* FALSE) or a tag with its text
Missing == [present |-> FALSE, text |-> <<>>]
Tag(text) == [present |-> TRUE, text |-> text]

\* a parsed site page: the tags found for class Hero-title, class
\* Hero-designation and the itemprops addressLocality, addressRegion,
\* postalCode and telephone
Doc(title, designation, locality, region, postalCode, telephone) ==
  [title |-> title, designation |-> designation, locality |-> locality, region |-> region,
   postalCode |-> postalCode, telephone |-> telephone]

\* str.strip()
RECURSIVE LStrip(_)
LStrip(s) == IF s # <<>> /\ Head(s) = " " THEN LStrip(Tail(s)) ELSE s
RECURSIVE RStrip(_)
RStrip(s) == IF s # <<>> /\ s[Len(s)] = " " THEN RStrip(SubSeq(s, 1, Len(s) - 1)) ELSE s
Strip(s) == RStrip(LStrip(s))

NoAddress == << "N", "o", " ", "a", "d", "d", "r", "e", "s", "s" >>
NoZipcode == << "N", "o", " ", "z", "i", "p", "c", "o", "d", "e" >>

NoSite == [raised |-> FALSE, made |-> FALSE, site |-> NationalSite(<<>>, <<>>, <<>>, <<>>, <<>>)]
SiteRaised == [raised |-> TRUE, made |-> FALSE, site |-> NationalSite(<<>>, <<>>, <<>>, <<>>, <<>>)]
SiteMade(site) == [raised |-> FALSE, made |-> TRUE, site |-> site]

\* lines 209-212: the postal code, or the default when the tag is missing
site_zip(doc) == IF doc.postalCode.present THEN Strip(doc.postalCode.text) ELSE NoZipcode

\* lines 203-208: city and state, or the default when either tag is missing
site_address(doc) ==
  IF doc.locality.present /\ doc.region.present
  THEN Strip(doc.locality.text) \o << ",", " " >> \o Strip(doc.region.text)
  ELSE NoAddress

\* lines 199-216, on the parsed page: .text of a missing required tag raises
get_site_instance(doc) ==
  IF ~doc.title.present \/ ~doc.designation.present \/ ~doc.telephone.present
  THEN SiteRaised
  ELSE SiteMade(NationalSite(Strip(doc.designation.text), Strip(doc.title.text),
                             site_address(doc), site_zip(doc), Strip(doc.telephone.text)))

NoDoc == Doc(Missing, Missing, Missing, Missing, Missing, Missing)

\* ------------------------------------------------- the fetchers, any calls
Url(i) == << "u", Digit(i) >>
Urls == { Url(i) : i \in 1..NumUrls }

\* a reply body of a page: HTML text, quotes included
Body(i) == << "<", "a", "=", "\"", Digit(i), "\"", ">" >>

\* the decoded searchResults of the i-th API reply
Places(i) == [j \in 1..(i - 1) |-> << "p", Digit(j) >>]

Zip(i) == << "4", "8", Digit(i) >>
Zips == { Zip(i) : i \in 1..NumZips } \cup { NoZipcode }

SiteWithZip(z) == NationalSite(<<>>, << "S" >>, <<>>, z, <<>>)

UrlReplies == { NetRaise } \cup { NetReply(Body(i)) : i \in 1..NumBodies }
ApiReplies ==
  { NetRaise, NetReply(Body(1)) }
  \cup { NetReply(dumps_value(JsonVal(Places(i)))) : i \in 1..NumBodies }

ApiKey(z) == construct_unique_key(mapquest_url, nearby_params(SiteWithZip(z)))

\* the cache file a run may find: none, a damaged one, or one left by an
\* earlier run
InitFiles ==
  { NoFile,
    FileOf(<< "{" >>),
    FileOf(json_dumps(<< [k |-> Url(1), v |-> TextVal(Body(1))],
                         [k |-> ApiKey(Zip(1)), v |-> JsonVal(Places(2))] >>)) }

\* n counts the calls made so far
NoCall == [op |-> "none", key |-> <<>>, outcome |-> "none", ret |-> NoValue, events |-> <<>>, n |-> 0]
Call(op, r, n) ==
  [op |-> op, key |-> r.key, outcome |-> r.outcome, ret |-> r.ret, events |-> r.events, n |-> n]

\* the call before the last one, kept when the last call is the same
\* operation on the same key: same is FALSE otherwise
NoPrev == [same |-> FALSE, outcome |-> "none", ret |-> NoValue, events |-> <<>>]
Before(op, r, l) ==
  IF l.op = op /\ l.key = r.key
  THEN [same |-> TRUE, outcome |-> l.outcome, ret |-> l.ret, events |-> l.events]
  ELSE NoPrev

Entries(d) == { d[i] : i \in 1..Len(d) }

\* the entries on record once the dict d has been written to the file
Written(p, d) == { e \in p : ~HasKey(d, e.k) } \cup Entries(d)

KeyIdle == [baseurl |-> <<>>, params |-> <<>>, unique_key |-> <<>>, called |-> FALSE]
KeyIdleInit == key_call = KeyIdle
SiteIdleInit == site_doc = NoDoc /\ site_instance = NoSite
MainIdleInit ==
  /\ pc = "idle"
  /\ states_dict = <<>>
  /\ state_sites = <<>>
  /\ user_input = <<>>
  /\ shown = ""
  /\ lookup = 0

\* line 88: CACHE_DICT = open_cache()
CacheInit ==
  /\ cache_file \in InitFiles
  /\ CACHE_DICT = open_cache(cache_file)
  /\ last = NoCall
  /\ prev = NoPrev
  /\ persisted = Entries(open_cache(cache_file))

Init == CacheInit /\ KeyIdleInit /\ SiteIdleInit /\ MainIdleInit

\* a call make_url_request_using_cache(url, CACHE_DICT), as the three
\* callers make it
FetchUrl ==
  /\ last.n < MaxCalls
  /\ \E url \in Urls, resp \in UrlReplies :
     \E r \in { make_url_request_using_cache(url, CACHE_DICT, cache_file, resp) } :
       /\ CACHE_DICT' = r.cache
       /\ cache_file' = r.fs
       /\ prev' = Before("fetch_url", r, last)
       /\ last' = Call("fetch_url", r, last.n + 1)
       /\ persisted' = IF r.outcome = "stored" THEN Written(persisted, r.cache) ELSE persisted
       /\ UNCHANGED << keyVars, siteVars, mainVars >>

\* a call get_nearby_places(site_object)
FetchApi ==
  /\ last.n < MaxCalls
  /\ \E z \in Zips, resp \in ApiReplies :
     \E r \in { get_nearby_places(SiteWithZip(z), cache_file, resp) } :
       /\ CACHE_DICT' = CACHE_DICT
       /\ cache_file' = r.fs
       /\ prev' = Before("fetch_api", r, last)
       /\ last' = Call("fetch_api", r, last.n + 1)
       /\ persisted' = IF r.outcome = "stored" THEN Written(persisted, r.cache) ELSE persisted
       /\ UNCHANGED << keyVars, siteVars, mainVars >>

Next == FetchUrl \/ FetchApi

Spec == Init /\ [][Next]_vars

\* ------------------------------------------------ properties of the fetchers
Count(x, events) == Cardinality({ i \in 1..Len(events) : events[i] = x })

\* C1 - cache idempotence: when a fetch (of either shape) is called twice in
\* a row with the same key and the first call fetched and stored its reply,
\* the second call is a cache hit that returns the value the first returned,
\* the two calls make exactly one network request between them, and the
\* second call neither sleeps nor requests.
CacheIdempotence ==
  (prev.same /\ prev.outcome = "stored") =>
    /\ last.outcome = "hit"
    /\ last.ret = prev.ret
    /\ Count("get", prev.events) + Count("get", last.events) = 1
    /\ Count("sleep", last.events) = 0

SecondCallHit ==
  /\ prev.same /\ prev.outcome = "stored"
  /\ last.op = "fetch_api" /\ last.outcome = "hit"
  /\ last.ret = JsonVal(Places(2))

\* C2 - cache entries are never lost: every entry that has been written to
\* the cache file is still in the cache file, with its value.
EntriesNeverLost ==
  \A e \in persisted :
    /\ HasKey(open_cache(cache_file), e.k)
    /\ Get(open_cache(cache_file), e.k) = e.v

\* C3 - delay before every network request: within a fetch call of either
\* shape, every GET comes after a sleep of the same call.
DelayBeforeEveryGet ==
  \A i \in 1..Len(last.events) :
    last.events[i] = "get" => \E j \in 1..(i - 1) : last.events[j] = "sleep"

\* C6 - fail-fast on a miss: a fetch call whose GET (or whose decode of the
\* reply) raises ends with the exception, after one request and no flush,
\* and leaves the module-level cache dict and the cache file as they were.
FailFast ==
  [][ last'.outcome = "raised" =>
        /\ CACHE_DICT' = CACHE_DICT
        /\ cache_file' = cache_file
        /\ Count("get", last'.events) = 1
        /\ Count("save", last'.events) = 0 ]_vars

RaisedOnMiss ==
  /\ last.outcome = "raised"
  /\ last.op = "fetch_url"
  /\ Len(CACHE_DICT) > 0
  /\ cache_file.exists

\* C7 - cache round-trip: after a fetch call has put its value under its key
\* and saved, a fresh open_cache() of the file gives a dict that maps the key
\* to that value and still holds every other entry of the dict the put was
\* made on.
CacheRoundTrip ==
  [][ last'.outcome = "stored" =>
        \E before \in { IF last'.op = "fetch_url" THEN CACHE_DICT ELSE open_cache(cache_file) } :
        \E loaded \in { open_cache(cache_file') } :
          /\ HasKey(loaded, last'.key)
          /\ Get(loaded, last'.key) = last'.ret
          /\ \A e \in Entries(before) :
               e.k # last'.key => HasKey(loaded, e.k) /\ Get(loaded, e.k) = e.v ]_vars

RoundTripped ==
  /\ last.outcome = "stored"
  /\ last.op = "fetch_url"
  /\ Len(open_cache(cache_file)) >= 3
  /\ \E e \in Entries(open_cache(cache_file)) : e.v.t = "obj"

\* C10 - write-through consistency: after every completed fetch call the dict
\* stored in the cache file equals the module-level cache dict.
WriteThrough ==
  (last.op # "none" /\ last.outcome # "raised") =>
    DictEq(open_cache(cache_file), CACHE_DICT)

\* ------------------------------------------ construct_unique_key, any calls
Bases == { << "B" >>, << "C" >> }
ParamNames == { << "x" >>, << "y" >>, << "x", "y" >> }
ParamValues ==
  { StrVal(<< "1" >>), StrVal(<< "2" >>), NumVal(1), StrVal(<< "1", "_", "y", "_", "2" >>) }
ParamItems == [k : ParamNames, v : ParamValues]

\* the dicts of at most MaxParams parameters, in every insertion order
ParamDicts ==
  UNION { { d \in [1..n -> ParamItems] : \A i, j \in 1..n : i # j => d[i].k # d[j].k }
          : n \in 0..MaxParams }

CacheIdleInit ==
  /\ CACHE_DICT = <<>>
  /\ cache_file = NoFile
  /\ last = NoCall
  /\ prev = NoPrev
  /\ persisted = {}

InitKey == KeyIdleInit /\ CacheIdleInit /\ SiteIdleInit /\ MainIdleInit

BuildKey ==
  \E baseurl \in Bases, params \in ParamDicts :
    /\ key_call' = [baseurl |-> baseurl, params |-> params,
                    unique_key |-> construct_unique_key(baseurl, params), called |-> TRUE]
    /\ UNCHANGED << cacheVars, siteVars, mainVars >>

NextKey == BuildKey

SpecKey == InitKey /\ [][NextKey]_vars

\* the same items in another insertion order
Reorderings(d) ==
  { [i \in 1..Len(d) |-> d[f[i]]] :
      f \in { g \in [1..Len(d) -> 1..Len(d)] : \A i, j \in 1..Len(d) : i # j => g[i] # g[j] } }

\* xs in ascending order: no element is smaller than the one before it
Ascending(xs) == \A i \in 1..(Len(xs) - 1) : ~StrLess(xs[i + 1], xs[i])

Rendered(item) == item.k \o << "_" >> \o Format(item.v)

\* C4 - key determinism: the key of a call is the key of the same call made
\* with the parameters inserted in any other order, and it is the base, then
\* '_', then the '{name}_{value}' fragments in ascending order joined by '_'.
KeyDeterminism ==
  key_call.called =>
    /\ \A d \in Reorderings(key_call.params) :
         construct_unique_key(key_call.baseurl, d) = key_call.unique_key
    /\ \E d \in Reorderings(key_call.params) :
         /\ Ascending([i \in 1..Len(d) |-> Rendered(d[i])])
         /\ key_call.unique_key =
              key_call.baseurl \o << "_" >> \o Join(<< "_" >>, [i \in 1..Len(d) |-> Rendered(d[i])])

KeyOfUnsortedParams ==
  /\ key_call.called
  /\ Len(key_call.params) = 2
  /\ StrLess(Rendered(key_call.params[2]), Rendered(key_call.params[1]))
  /\ key_call.unique_key = << "B", "_", "x", "_", "1", "_", "y", "_", "2" >>

HasSeparator(s) == \E i \in 1..Len(s) : s[i] = "_"
NoSeparator(d) == \A i \in 1..Len(d) : ~HasSeparator(d[i].k) /\ ~HasSeparator(Format(d[i].v))

\* dict.__ne__ on parameter dicts: 1 and "1" are different values
DiffersFrom(d, e) == ~DictEq(d, e)

\* the names differ, or the text of some value differs
DiffersInText(d, e) ==
  \/ Keys(d) # Keys(e)
  \/ \E k \in Keys(d) : Format(Get(d, k)) # Format(Get(e, k))

\* C5, as claimed - key discrimination: for the base of a call, every
\* separator-free parameter dict that differs from the call's separator-free
\* dict in its names or in any value has a different key.
KeyDiscrimination ==
  key_call.called =>
    \A e \in ParamDicts :
      (NoSeparator(key_call.params) /\ NoSeparator(e) /\ DiffersFrom(key_call.params, e))
        => construct_unique_key(key_call.baseurl, e) # key_call.unique_key

\* C5, amended - for the base of a call, every separator-free parameter dict
\* that differs from the call's separator-free dict in its names or in the
\* text str() gives of any value has a different key.
KeyDiscriminationByText ==
  key_call.called =>
    \A e \in ParamDicts :
      (NoSeparator(key_call.params) /\ NoSeparator(e) /\ DiffersInText(key_call.params, e))
        => construct_unique_key(key_call.baseurl, e) # key_call.unique_key

KeyOfOneParam ==
  /\ key_call.called
  /\ key_call.baseurl = << "B" >>
  /\ key_call.params = << [k |-> << "x" >>, v |-> StrVal(<< "1" >>)] >>
  /\ key_call.unique_key = << "B", "_", "x", "_", "1" >>
  /\ construct_unique_key(<< "B" >>, << [k |-> << "x" >>, v |-> StrVal(<< "2" >>)] >>)
       = << "B", "_", "x", "_", "2" >>

\* --------------------------------------------- get_site_instance, any page
MarkerTexts == { << "a" >>, << " ", "b", "1", " " >> }
Markers == { Missing } \cup { Tag(t) : t \in MarkerTexts }
SiteDocs == { Doc(a, b, c, d, e, f) : a \in Markers, b \in Markers, c \in Markers,
                                      d \in Markers, e \in Markers, f \in Markers }

InitSite == SiteIdleInit /\ CacheIdleInit /\ KeyIdleInit /\ MainIdleInit

ExtractSite ==
  \E doc \in SiteDocs :
    /\ site_doc' = doc
    /\ site_instance' = get_site_instance(doc)
    /\ UNCHANGED << cacheVars, keyVars, mainVars >>

NextSite == ExtractSite

SpecSite == InitSite /\ [][NextSite]_vars

\* C8 - optional-field default: the record made from a site page that has
\* the title, category and phone tags but no postal-code tag has the zipcode
\* "no zipcode".
OptionalZipDefault ==
  (site_doc.title.present /\ site_doc.designation.present /\ site_doc.telephone.present
   /\ ~site_doc.postalCode.present)
    => /\ site_instance.made
       /\ site_instance.site.zipcode = << "n", "o", " ", "z", "i", "p", "c", "o", "d", "e" >>

\* ------------------------------------------------------------ the web pages
BASE_URL ==
  << "h", "t", "t", "p", "s", ":", "/", "/", "w", "w", "w", ".", "n", "p", "s", ".", "g", "o", "v" >>
STATES_INDEX_PATH == << "/", "i", "n", "d", "e", "x", ".", "h", "t", "m" >>

\* str.lower()
Lower(s) ==
  [i \in 1..Len(s) |-> IF Ord(s[i]) >= 65 /\ Ord(s[i]) <= 90 THEN Ascii[Ord(s[i]) + 1] ELSE s[i]]

\* reply bodies: the index page, the page of a state listing n sites, the
\* page of site i, and a page with none of the markers
IndexBody == << "I" >>
StateBody(n) == << "M", Digit(n) >>
SiteBody(i) == << "S", Digit(i) >>
ErrorBody == << "E" >>

StatePath == << "/", "m", "i" >>
SitePath(i) == << "/", "s", Digit(i) >>

\* site 2 has no postal code
SiteDoc(i) ==
  Doc(Tag(<< " ", "S", Digit(i) >>), Tag(<< "P" >>), Tag(<< "A" >>), Tag(<< "M", "I" >>),
      IF i = 2 THEN Missing ELSE Tag(Zip(i)), Tag(<< "5" >>))

\* what BeautifulSoup(text, 'html.parser') finds in a reply body: the states
\* dropdown and its entries, the result rows of a state page, the markers of
\* a site page
Soup(body) ==
  [dropdown |-> body = IndexBody,
   states |-> IF body = IndexBody
              THEN << [text |-> << " ", "M", "i", "c", "h", "i", "g", "a", "n", " " >>,
                       href |-> StatePath] >>
              ELSE <<>>,
   parks |-> IF \E n \in 0..MaxSites : body = StateBody(n)
             THEN [i \in 1..(CHOOSE n \in 0..MaxSites : body = StateBody(n)) |-> SitePath(i)]
             ELSE <<>>,
   doc |-> IF \E i \in 1..MaxSites : body = SiteBody(i)
           THEN SiteDoc(CHOOSE i \in 1..MaxSites : body = SiteBody(i))
           ELSE NoDoc]

\* ---------------------------------------------------- build_state_url_dict
RECURSIVE StatesLoop(_, _)
StatesLoop(states_list, dict) ==
  IF states_list = <<>> THEN dict
  ELSE StatesLoop(Tail(states_list),
                  Put(dict, Lower(Strip(Head(states_list).text)), BASE_URL \o Head(states_list).href))

Built(raised, dict, cache, fs) == [raised |-> raised, dict |-> dict, cache |-> cache, fs |-> fs]

\* find() gives None when the page has no dropdown, and None.find_all raises
build_state_url_dict(cache, fs, resp) ==
  With(make_url_request_using_cache(BASE_URL \o STATES_INDEX_PATH, cache, fs, resp), LAMBDA r :
  With(Soup(r.ret.s), LAMBDA soup :
    IF r.outcome = "raised" THEN Built(TRUE, <<>>, r.cache, r.fs)
    ELSE IF ~soup.dropdown THEN Built(TRUE, <<>>, r.cache, r.fs)
    ELSE Built(FALSE, StatesLoop(soup.states, <<>>), r.cache, r.fs)))

\* ------------------------------------------------------- get_sites_for_state
Listed(raised, sites, cache, fs) == [raised |-> raised, sites |-> sites, cache |-> cache, fs |-> fs]

\* lines 238-243: one get_site_instance(park_url) per result row; replies[i]
\* is what the network would answer for the i-th row
RECURSIVE ParksLoop(_, _, _, _, _, _)
ParksLoop(parks, i, cache, fs, replies, list_of_sites) ==
  IF i > Len(parks) THEN Listed(FALSE, list_of_sites, cache, fs)
  ELSE With(make_url_request_using_cache(BASE_URL \o parks[i], cache, fs, replies[i]), LAMBDA r :
       With(get_site_instance(Soup(r.ret.s).doc), LAMBDA made :
         IF r.outcome = "raised" \/ made.raised THEN Listed(TRUE, list_of_sites, r.cache, r.fs)
         ELSE ParksLoop(parks, i + 1, r.cache, r.fs, replies, Append(list_of_sites, made.site))))

get_sites_for_state(state_url, cache, fs, resp, replies) ==
  With(make_url_request_using_cache(state_url, cache, fs, resp), LAMBDA r :
    IF r.outcome = "raised" THEN Listed(TRUE, <<>>, r.cache, r.fs)
    ELSE With(Soup(r.ret.s).parks, LAMBDA parks :
           ParksLoop(parks, 1, r.cache, r.fs, replies, <<>>)))

\* ------------------------------------------------------------ the main loop
Exit == << "e", "x", "i", "t" >>
Back == << "b", "a", "c", "k" >>

\* str.isnumeric() on the ASCII inputs of the model
IsNumeric(s) == s # <<>> /\ \A i \in 1..Len(s) : Ord(s[i]) >= 48 /\ Ord(s[i]) <= 57

\* int(s) of a numeric s
RECURSIVE ToInt(_)
ToInt(s) == IF s = <<>> THEN 0 ELSE 10 * ToInt(SubSeq(s, 1, Len(s) - 1)) + (Ord(s[Len(s)]) - 48)

\* list[i]: the 1-based position read, 0 where list[i] raises IndexError
PyIndex(list, i) ==
  IF i >= 0 /\ i < Len(list) THEN i + 1
  ELSE IF i < 0 /\ 0 - i <= Len(list) THEN Len(list) + i + 1
  ELSE 0

OutOfRange == "Index out of range. Please enter a new number"
TryAgain == "Error - please try again."
BadState == "Error - enter a proper state name"

IndexReplies == { NetRaise, NetReply(IndexBody), NetReply(ErrorBody) }
StateReplies == { NetRaise } \cup { NetReply(StateBody(n)) : n \in 0..MaxSites }
SiteReplies(i) == { NetRaise, NetReply(SiteBody(i)), NetReply(ErrorBody) }

StateInputs ==
  { Exit, << "M", "i", "c", "h", "i", "g", "a", "n" >>, << "o", "h", "i", "o" >>, << "0" >> }
SiteInputs == { Exit, Back, << "x" >>, << "-", "1" >> } \cup { FormatNat(n) : n \in 0..(MaxSites + 1) }

InitMain ==
  /\ CacheInit /\ KeyIdleInit /\ SiteIdleInit
  /\ pc = "start"
  /\ states_dict = <<>>
  /\ state_sites = <<>>
  /\ user_input = <<>>
  /\ shown = ""
  /\ lookup = 0

\* line 345
Start ==
  /\ pc = "start"
  /\ \E resp \in IndexReplies :
       \E r \in { build_state_url_dict(CACHE_DICT, cache_file, resp) } :
          /\ CACHE_DICT' = r.cache
          /\ cache_file' = r.fs
          /\ states_dict' = r.dict
          /\ pc' = IF r.raised THEN "crashed" ELSE "state_prompt"
  /\ UNCHANGED << last, prev, persisted, keyVars, siteVars, state_sites, user_input, shown, lookup >>

\* lines 347-354 and 377-379: one line read at the state prompt
StateInput ==
  /\ pc = "state_prompt"
  /\ \E inp \in StateInputs, resp \in StateReplies,
        replies \in [1..MaxSites -> { NetRaise, NetReply(ErrorBody) } \cup { NetReply(SiteBody(i)) : i \in 1..MaxSites }] :
       /\ \A i \in 1..MaxSites : replies[i] \in SiteReplies(i)
       /\ user_input' = Lower(inp)
       /\ lookup' = 0
       /\ IF Lower(inp) = Exit
          THEN /\ pc' = "done"
               /\ shown' = "Bye!"
               /\ UNCHANGED << CACHE_DICT, cache_file, state_sites >>
          ELSE IF HasKey(states_dict, Lower(inp))
          THEN \E r \in { get_sites_for_state(Get(states_dict, Lower(inp)), CACHE_DICT, cache_file,
                                               resp, replies) } :
                  /\ CACHE_DICT' = r.cache
                  /\ cache_file' = r.fs
                  /\ state_sites' = IF r.raised THEN state_sites ELSE r.sites
                  /\ pc' = IF r.raised THEN "crashed" ELSE "site_prompt"
                  /\ shown' = IF r.raised THEN "" ELSE "List of national sites"
          ELSE /\ pc' = "state_prompt"
               /\ shown' = BadState
               /\ UNCHANGED << CACHE_DICT, cache_file, state_sites >>
  /\ UNCHANGED << last, prev, persisted, keyVars, siteVars, states_dict >>

\* lines 356-376: one line read at the selection prompt; every exception of
\* the try block is caught and reported
SiteInput ==
  /\ pc = "site_prompt"
  /\ \E inp \in SiteInputs, resp \in ApiReplies :
       /\ user_input' = inp
       /\ IF inp = Exit \/ inp = Back \/ ~IsNumeric(inp)
          THEN /\ pc' = "state_prompt"
               /\ shown' = ""
               /\ lookup' = 0
               /\ UNCHANGED cache_file
          ELSE IF ToInt(inp) <= Len(state_sites)
          THEN LET pos == PyIndex(state_sites, ToInt(inp) - 1)
               IN /\ pc' = "site_prompt"
                  /\ lookup' = pos
                  /\ IF pos = 0
                     THEN shown' = TryAgain /\ UNCHANGED cache_file
                     ELSE \E r \in { get_nearby_places(state_sites[pos], cache_file, resp) } :
                            /\ cache_file' = r.fs
                            /\ shown' = IF r.outcome = "raised" THEN TryAgain ELSE "Places near"
          ELSE /\ pc' = "site_prompt"
               /\ shown' = OutOfRange
               /\ lookup' = 0
               /\ UNCHANGED cache_file
  /\ UNCHANGED << CACHE_DICT, last, prev, persisted, keyVars, siteVars, states_dict, state_sites >>

NextMain == Start \/ StateInput \/ SiteInput

SpecMain == InitMain /\ [][NextMain]_vars

\* C9 - selection validation: with n sites listed, a numeric line at the
\* selection prompt that is outside 1..n is reported, the prompt is shown
\* again, and no nearby-places lookup is made for any site.
SelectionValidated ==
  (pc = "site_prompt" /\ IsNumeric(user_input) /\ ToInt(user_input) \notin 1..Len(state_sites))
    => /\ shown \in { OutOfRange, TryAgain }
       /\ lookup = 0

====
